---------------------------- MODULE Spec2Model ----------------------------
(***************************************************************************)
(* Source-line correlation and patch application engine of FedDualFix:     *)
(* src/src/parse.py (normalizer, matcher, resolver) and src/src/patch.py   *)
(* (patching).                                                             *)
(*                                                                         *)
(* A line of text is a sequence of one-character strings; a text is such a *)
(* sequence that may hold "\n".  Indices are the 0-based indices of the    *)
(* Python code; a Python list l is a TLA+ sequence, l[i] being l[i + 1].   *)
(***************************************************************************)
EXTENDS Integers, Sequences, FiniteSets, TLC

(***************************************************************************)
(* Characters and the str methods the code uses.                           *)
(***************************************************************************)
Lower == {"a", "b", "c", "d", "e", "f", "g", "h", "i", "j", "k", "l", "m",
          "n", "o", "p", "q", "r", "s", "t", "u", "v", "w", "x", "y", "z"}

Upper == {"A", "B", "C", "D", "E", "F", "G", "H", "I", "J", "K", "L", "M",
          "N", "O", "P", "Q", "R", "S", "T", "U", "V", "W", "X", "Y", "Z"}

Digit == {"0", "1", "2", "3", "4", "5", "6", "7", "8", "9"}

\* [A-Za-z0-9]
Alnum == Lower \cup Upper \cup Digit

\* what str.strip() and the regex class \s take for whitespace
IsSpace(c) == c \in {" ", "\t", "\n", "\r"}

Min(a, b) == IF a < b THEN a ELSE b

\* s[i:] of Python, i >= 0
Drop(s, i) == SubSeq(s, Min(i, Len(s)) + 1, Len(s))

\* s[:i] of Python, i >= 0
Take(s, i) == SubSeq(s, 1, Min(i, Len(s)))

RECURSIVE LStrip(_)
LStrip(s) == IF s # <<>> /\ IsSpace(Head(s)) THEN LStrip(Tail(s)) ELSE s

RECURSIVE RStrip(_)
RStrip(s) ==
    IF s # <<>> /\ IsSpace(s[Len(s)]) THEN RStrip(SubSeq(s, 1, Len(s) - 1)) ELSE s

Strip(s) == LStrip(RStrip(s))

StartsWith(s, p) == Len(s) >= Len(p) /\ SubSeq(s, 1, Len(p)) = p

\* sub in s
Contains(s, sub) ==
    \E i \in 0..(Len(s) - Len(sub)) : SubSeq(s, i + 1, i + Len(sub)) = sub

\* s.split(sep)[0]: the text before the first occurrence of sep
SplitHead(s, sep) ==
    IF Contains(s, sep)
    THEN LET i == CHOOSE j \in 0..(Len(s) - Len(sep)) :
                     /\ SubSeq(s, j + 1, j + Len(sep)) = sep
                     /\ \A k \in 0..(j - 1) : SubSeq(s, k + 1, k + Len(sep)) # sep
         IN  Take(s, i)
    ELSE s

\* s.replace(c, "") for a one-character c
RemoveChar(s, c) == SelectSeq(s, LAMBDA x : x # c)

\* "\n".join(parts)
RECURSIVE JoinLines(_)
JoinLines(parts) ==
    IF parts = <<>> THEN <<>>
    ELSE IF Len(parts) = 1 THEN parts[1]
    ELSE parts[1] \o <<"\n">> \o JoinLines(Tail(parts))

Slashes == <<"/", "/">>

(***************************************************************************)
(* src/src/parse.py                                                        *)
(***************************************************************************)
\* remove_whitespace taking one blank off the front of the line
remove_whitespace_head(line) ==
    IF line # <<>> /\ Head(line) \in {" ", "\n"} THEN Tail(line) ELSE line

remove_whitespace(line) == RemoveChar(RemoveChar(line, "\n"), " ")

\* two_lines_match comparing the lines with their comments
two_lines_match_exact(line1, line2) ==
    /\ Strip(line1) # <<>>
    /\ Strip(line2) # <<>>
    /\ remove_whitespace(line1) = remove_whitespace(line2)

two_lines_match(line1, line2) ==
    IF line1 = <<>> \/ line2 = <<>> THEN FALSE
    ELSE LET s1 == Strip(line1)
             s2 == Strip(line2)
         IN  IF s1 = <<>> \/ s2 = <<>> THEN FALSE
             ELSE IF StartsWith(s1, Slashes) /\ StartsWith(s2, Slashes)
             THEN /\ remove_whitespace(s1) # <<>>
                  /\ remove_whitespace(s2) # <<>>
                  /\ remove_whitespace(s1) = remove_whitespace(s2)
             ELSE LET l1 == remove_whitespace(SplitHead(line1, Slashes))
                      l2 == remove_whitespace(SplitHead(line2, Slashes))
                  IN  l1 # <<>> /\ l2 # <<>> /\ l1 = l2

\* the optional list argument "existing": None, or a list of lines
NoList == [none |-> TRUE, lst |-> <<>>]

SomeList(l) == [none |-> FALSE, lst |-> l]

exist_line(line, mylst) ==
    IF mylst.none THEN TRUE
    ELSE \E i \in 1..Len(mylst.lst) : two_lines_match(mylst.lst[i], line)

Missing == <<"m", "i", "s", "s", "i", "n", "g">>

Buggy == <<"b", "u", "g", "g", "y">>

\* is_valid_line without the test of the leading "+"
is_valid_line_any_sign(line, length) ==
    /\ Len(remove_whitespace(line)) > length
    /\ Strip(line) # <<>>
    /\ ~(Contains(line, Missing) \/ Contains(line, Buggy))

is_valid_line(line, length) ==
    LET nowh == remove_whitespace(line)
        s == Strip(line)
    IN  IF Len(nowh) <= length THEN FALSE
        ELSE IF s = <<>> THEN FALSE
        ELSE IF s[1] = "+" THEN FALSE
        ELSE IF Contains(line, Missing) \/ Contains(line, Buggy) THEN FALSE
        ELSE TRUE

\* the None that search_valid_line returns; a found line is given by its index
NoLine == -1

RECURSIVE search_walk(_, _, _, _, _)
search_walk(lines, cur_idx, incre, degree, existing) ==
    IF ~(0 <= cur_idx /\ cur_idx < Len(lines)) THEN NoLine
    ELSE IF is_valid_line(lines[cur_idx + 1], 0) /\ exist_line(lines[cur_idx + 1], existing)
    THEN IF degree - 1 = 0 THEN cur_idx
         ELSE search_walk(lines, cur_idx + incre, incre, degree - 1, existing)
    ELSE search_walk(lines, cur_idx + incre, incre, degree, existing)

\* search_valid_line with the walk starting on start_idx itself
search_valid_line_inclusive(lines, start_idx, mode, degree, existing) ==
    search_walk(lines, start_idx, IF mode = "pre" THEN -1 ELSE 1, degree, existing)

search_valid_line(lines, start_idx, mode, degree, existing) ==
    LET incre == IF mode = "pre" THEN -1 ELSE 1
    IN  search_walk(lines, start_idx + incre, incre, degree, existing)

\* list(range(n))
RECURSIVE IndexList(_)
IndexList(n) == IF n = 0 THEN <<>> ELSE Append(IndexList(n - 1), n - 1)

matching_with_comments(aim_line, matched, code_lines) ==
    SelectSeq(matched,
              LAMBDA m : remove_whitespace(aim_line) = remove_whitespace(code_lines[m + 1]))

matching_lines(aim_line, code_lines) ==
    SelectSeq(IndexList(Len(code_lines)),
              LAMBDA idx : two_lines_match(aim_line, code_lines[idx + 1]))

\* the candidates of now whose degree-th valid neighbour in raw_codes matches aim
neighbor_also(now, aim, mode, degree, raw_codes) ==
    SelectSeq(now,
              LAMBDA mi :
                  LET m == search_valid_line(raw_codes, mi, mode, degree, NoList)
                  IN  m # NoLine /\ two_lines_match(aim, raw_codes[m + 1]))

SeqToSet(s) == {s[i] : i \in 1..Len(s)}

RECURSIVE neighbor_loop(_, _, _, _, _, _, _, _)

\* lines 158-173: what a round of the loop does with the candidates it kept
neighbor_round(aim_codes, aim_idx, raw_codes, existing_pool, degree_limit, degree, has_pre, has_post, pre_also, post_also) ==
    IF has_pre /\ Len(pre_also) = 1 THEN pre_also
    ELSE IF has_post /\ Len(post_also) = 1 THEN post_also
    ELSE IF /\ pre_also # <<>>
            /\ post_also # <<>>
            /\ Cardinality(SeqToSet(pre_also) \cap SeqToSet(post_also)) = 1
    THEN <<CHOOSE x \in SeqToSet(pre_also) \cap SeqToSet(post_also) : TRUE>>
    ELSE IF pre_also = <<>> /\ post_also = <<>> THEN <<>>
    ELSE neighbor_loop(aim_codes, aim_idx, raw_codes, existing_pool, degree_limit,
                       degree + 1, pre_also, post_also)

\* lines 150-164: the candidates kept for the neighbours aim_pre and aim_post
neighbor_kept(aim_codes, aim_idx, raw_codes, existing_pool, degree_limit, degree, pre_now, post_now, aim_pre, aim_post) ==
    neighbor_round(aim_codes, aim_idx, raw_codes, existing_pool, degree_limit, degree,
                   aim_pre # NoLine, aim_post # NoLine,
                   IF aim_pre # NoLine
                   THEN neighbor_also(pre_now, aim_codes[aim_pre + 1], "pre", degree, raw_codes)
                   ELSE <<>>,
                   IF aim_post # NoLine
                   THEN neighbor_also(post_now, aim_codes[aim_post + 1], "post", degree, raw_codes)
                   ELSE <<>>)

\* lines 146-175: for degree in range(1, degree_limit + 1)
neighbor_loop(aim_codes, aim_idx, raw_codes, existing_pool, degree_limit, degree, pre_now, post_now) ==
    IF degree > degree_limit THEN <<>>
    ELSE neighbor_kept(aim_codes, aim_idx, raw_codes, existing_pool, degree_limit, degree,
                       pre_now, post_now,
                       search_valid_line(aim_codes, aim_idx, "pre", degree, existing_pool),
                       search_valid_line(aim_codes, aim_idx, "post", degree, existing_pool))

\* matching_neighbor giving the first candidate without a look at a neighbour
matching_neighbor_first(aim_codes, aim_idx, raw_codes, matched, existing, degree_limit) ==
    IF matched = <<>> THEN <<>> ELSE <<matched[1]>>

matching_neighbor(aim_codes, aim_idx, raw_codes, matched, existing, degree_limit) ==
    neighbor_loop(aim_codes, aim_idx, raw_codes,
                  IF existing THEN SomeList(raw_codes) ELSE NoList,
                  degree_limit, 1, matched, matched)

\* the sentinels of unique_matching
NoCandidate == -2

Ambiguous == -1

\* degree_limit=5 in unique_matching's call of matching_neighbor
DegreeLimit == 5

\* unique_matching with resp_cur_line given (target) or None (HasLine = FALSE)
unique_target(resp_lines, resp_cur_idx, has_line, resp_cur_line) ==
    IF has_line THEN resp_cur_line ELSE resp_lines[resp_cur_idx + 1]

\* unique_matching with the two sentinels taken for one another
unique_matching_swapped(resp_lines, code_lines, resp_cur_idx, has_line, resp_cur_line, existing) ==
    LET target == unique_target(resp_lines, resp_cur_idx, has_line, resp_cur_line)
        matched == matching_lines(target, code_lines)
    IN  IF Len(matched) = 1 THEN matched[1]
        ELSE IF Len(matched) = 0 THEN Ambiguous
        ELSE LET neighbor == matching_neighbor(resp_lines, resp_cur_idx, code_lines,
                                               matched, existing, DegreeLimit)
             IN  IF Len(neighbor) = 1 THEN neighbor[1] ELSE NoCandidate

\* unique_matching giving the index of the fragment line for a single match
unique_matching_own_index(resp_lines, code_lines, resp_cur_idx, has_line, resp_cur_line, existing) ==
    LET target == unique_target(resp_lines, resp_cur_idx, has_line, resp_cur_line)
        matched == matching_lines(target, code_lines)
    IN  IF Len(matched) = 1 THEN resp_cur_idx
        ELSE IF Len(matched) = 0 THEN NoCandidate
        ELSE LET neighbor == matching_neighbor(resp_lines, resp_cur_idx, code_lines,
                                               matched, existing, DegreeLimit)
             IN  IF Len(neighbor) = 1 THEN neighbor[1] ELSE Ambiguous

\* unique_matching without the return for a single match: one candidate goes
\* through the neighbours like several
unique_matching_no_shortcut(resp_lines, code_lines, resp_cur_idx, has_line, resp_cur_line, existing) ==
    LET target == unique_target(resp_lines, resp_cur_idx, has_line, resp_cur_line)
        matched == matching_lines(target, code_lines)
    IN  IF Len(matched) = 0 THEN NoCandidate
        ELSE LET neighbor == matching_neighbor(resp_lines, resp_cur_idx, code_lines,
                                               matched, existing, DegreeLimit)
             IN  IF Len(neighbor) = 1 THEN neighbor[1] ELSE Ambiguous

\* unique_matching giving the first of several candidates without a look at
\* the neighbours
unique_matching_first(resp_lines, code_lines, resp_cur_idx, has_line, resp_cur_line, existing) ==
    LET target == unique_target(resp_lines, resp_cur_idx, has_line, resp_cur_line)
        matched == matching_lines(target, code_lines)
    IN  IF Len(matched) = 0 THEN NoCandidate ELSE matched[1]

unique_matching(resp_lines, code_lines, resp_cur_idx, has_line, resp_cur_line, existing) ==
    LET target == unique_target(resp_lines, resp_cur_idx, has_line, resp_cur_line)
        matched == matching_lines(target, code_lines)
    IN  IF Len(matched) = 1 THEN matched[1]
        ELSE IF Len(matched) = 0 THEN NoCandidate
        ELSE LET neighbor == matching_neighbor(resp_lines, resp_cur_idx, code_lines,
                                               matched, existing, DegreeLimit)
             IN  IF Len(neighbor) = 1 THEN neighbor[1] ELSE Ambiguous

(***************************************************************************)
(* src/src/patch.py                                                        *)
(***************************************************************************)
\* [\s\d\+\-\,]
InHunkClass(c) == IsSpace(c) \/ c \in Digit \/ c \in {"+", "-", ","}

\* the index after the longest run of characters satisfying the class from i
RECURSIVE RunEnd(_, _, _)
RunEnd(s, i, digitsOnly) ==
    IF i <= Len(s) /\ (IF digitsOnly THEN s[i] \in Digit ELSE InHunkClass(s[i]))
    THEN RunEnd(s, i + 1, digitsOnly)
    ELSE i

At(s, i, c) == i <= Len(s) /\ s[i] = c

\* the length of a match of @@[\s\d\+\-\,]+@@ at the start of line, 0 if none
HunkTokenLen(line) ==
    IF ~(At(line, 1, "@") /\ At(line, 2, "@")) THEN 0
    ELSE LET e == RunEnd(line, 3, FALSE)
         IN  IF e > 3 /\ At(line, e, "@") /\ At(line, e + 1, "@") THEN e + 1 ELSE 0

\* the first index j >= i of a line with a character in it, 0 if none
RECURSIVE FirstNonEmpty(_, _)
FirstNonEmpty(lines, i) ==
    IF i > Len(lines) THEN 0
    ELSE IF lines[i] # <<>> THEN i
    ELSE FirstNonEmpty(lines, i + 1)

\* re.sub of (@@[\s\d\+\-\,]+@@)(\s+[^\n]+) by \1\n\2 on the joined text, then
\* splitlines(), for a text given by its lines whose hunk tokens start a line
RECURSIVE format_patch_from(_, _)
format_patch_from(lines, i) ==
    IF i > Len(lines) THEN <<>>
    ELSE
    LET line == lines[i]
        e == HunkTokenLen(line)
        rest == Drop(line, e)
        j == FirstNonEmpty(lines, i + 1)
    IN  IF e = 0 THEN <<line>> \o format_patch_from(lines, i + 1)
        ELSE IF Len(rest) >= 2 /\ IsSpace(rest[1])
        THEN <<Take(line, e), rest>> \o format_patch_from(lines, i + 1)
        ELSE IF (rest = <<>> \/ (Len(rest) = 1 /\ IsSpace(rest[1]))) /\ j # 0
        THEN <<Take(line, e), rest>> \o SubSeq(lines, i + 1, j)
                 \o format_patch_from(lines, j + 1)
        ELSE <<line>> \o format_patch_from(lines, i + 1)

_format_patch_lines(patch_text) == format_patch_from(patch_text, 1)

Keywords ==
    << <<"p", "u", "b", "l", "i", "c">>,
       <<"p", "r", "i", "v", "a", "t", "e">>,
       <<"p", "r", "o", "t", "e", "c", "t", "e", "d">> >>

IsKeyword(line) == \E k \in 1..Len(Keywords) : RemoveChar(line, " ") = Keywords[k]

\* re.search(r'[A-Za-z0-9]$', line): $ also matches before a final newline
EndsAlnum(line) ==
    \/ line # <<>> /\ line[Len(line)] \in Alnum
    \/ Len(line) >= 2 /\ line[Len(line)] = "\n" /\ line[Len(line) - 1] \in Alnum

\* the condition under which _format_code joins line i with line i + 1
IsWrapped(line, i, n) ==
    /\ i < n - 1
    /\ ~Contains(line, <<"c", "l", "a", "s", "s">>)
    /\ ~StartsWith(Strip(line), <<"*">>)
    /\ ~Contains(line, Slashes)
    /\ ~Contains(line, <<"/", "*">>)
    /\ EndsAlnum(line)

\* one iteration of _format_code's loop: line is code_lines[i], out the copy
format_step(out, line, i) ==
    IF IsKeyword(line)
    THEN IF i + 1 < Len(out)
         THEN [out EXCEPT ![i + 1] = <<>>,
                          ![i + 2] = RemoveChar(line, " ") \o <<" ">> \o LStrip(out[i + 2])]
         ELSE [out EXCEPT ![i + 1] = <<>>]
    ELSE IF IsWrapped(line, i, Len(out))
    THEN [out EXCEPT ![i + 1] = RStrip(line) \o <<" ">> \o LStrip(out[i + 2]),
                     ![i + 2] = <<>>]
    ELSE out

RECURSIVE format_loop(_, _, _)
format_loop(code_lines, out, i) ==
    IF i >= Len(code_lines) THEN out
    ELSE format_loop(code_lines, format_step(out, code_lines[i + 1], i), i + 1)

\* _format_code leaving out the lines it has emptied
format_code_compacted(code_lines) ==
    SelectSeq(format_loop(code_lines, code_lines, 0), LAMBDA l : l # <<>>)

_format_code(code_lines) == format_loop(code_lines, code_lines, 0)

\* re.match(r'^@@\s-\d+,\d+\s\+\d+,\d+\s@@.*', s)
IsHunkHeader(s) ==
    LET d1 == RunEnd(s, 5, TRUE)
        d2 == RunEnd(s, d1 + 1, TRUE)
        d3 == RunEnd(s, d2 + 2, TRUE)
        d4 == RunEnd(s, d3 + 1, TRUE)
    IN  /\ At(s, 1, "@") /\ At(s, 2, "@")
        /\ Len(s) >= 3 /\ IsSpace(s[3])
        /\ At(s, 4, "-")
        /\ d1 > 5 /\ At(s, d1, ",")
        /\ d2 > d1 + 1 /\ d2 <= Len(s) /\ IsSpace(s[d2])
        /\ At(s, d2 + 1, "+")
        /\ d3 > d2 + 2 /\ At(s, d3, ",")
        /\ d4 > d3 + 1 /\ d4 <= Len(s) /\ IsSpace(s[d4])
        /\ At(s, d4 + 1, "@") /\ At(s, d4 + 2, "@")

\* re.match/re.search of ^[<signs>](\s|\t)+.*$ on a text without newlines
IsSigned(s, signs) == Len(s) >= 2 /\ s[1] \in signs /\ IsSpace(s[2])

has_hunk(patch_lines) ==
    \E i \in 1..Len(patch_lines) : IsHunkHeader(Strip(patch_lines[i]))

has_sign(patch_lines) ==
    \E i \in 1..Len(patch_lines) : IsSigned(Strip(patch_lines[i]), {"-", "+"})

\* _is_a_patch with "or" for "and"
is_a_patch_either(patch_lines) == has_hunk(patch_lines) \/ has_sign(patch_lines)

_is_a_patch(patch_lines) == has_hunk(patch_lines) /\ has_sign(patch_lines)

\* m for m in matched if m > lag, when lag >= 0
lag_filter(matched, lag) ==
    IF lag >= 0 THEN SelectSeq(matched, LAMBDA m : m > lag) ELSE matched

_find_a_matched_line(pidx, pline, code_lines, patch_lines, lag, existing) ==
    LET matched == lag_filter(matching_lines(pline, code_lines), lag)
        perfect == matching_with_comments(pline, matched, code_lines)
    IN  IF Len(matched) = 1 THEN matched[1]
        ELSE IF Len(perfect) = 1 THEN perfect[1]
        ELSE unique_matching(patch_lines, code_lines, pidx, TRUE, pline, existing)

(***************************************************************************)
(* The values of the slots of patched: a str, or a list whose elements are *)
(* such values again.                                                      *)
(***************************************************************************)
Str(text) == [t |-> "str", s |-> text, l |-> <<>>]

List(elems) == [t |-> "list", s |-> <<>>, l |-> elems]

\* not p
IsFalsy(p) == IF p.t = "str" THEN p.s = <<>> ELSE p.l = <<>>

\* [c for c in text], what list += str appends
RECURSIVE Chars(_)
Chars(text) ==
    IF text = <<>> THEN <<>> ELSE <<Str(<<Head(text)>>)>> \o Chars(Tail(text))

\* p += text
PlusEq(p, text) == IF p.t = "str" THEN Str(p.s \o text) ELSE List(p.l \o Chars(text))

\* i is an index Python accepts for a list of n elements
PyIndexOK(i, n) == -n <= i /\ i < n

\* the position in the TLA+ sequence of Python's index i
PyPos(i, n) == IF i < 0 THEN i + n + 1 ELSE i + 1

\* res of lines 161-170: the slots' contents in slot order
RECURSIVE collect(_)
collect(patched) ==
    IF patched = <<>> THEN <<>>
    ELSE LET p == Head(patched)
         IN  IF IsFalsy(p) THEN collect(Tail(patched))
             ELSE IF p.t = "str" THEN <<p>> \o collect(Tail(patched))
             ELSE p.l \o collect(Tail(patched))

\* "\n".join(res) without the strip()
reconstruct_untrimmed(patched) ==
    LET res == collect(patched)
    IN  JoinLines([i \in 1..Len(res) |-> res[i].s])

\* "\n".join(res).strip()
reconstruct(patched) ==
    LET res == collect(patched)
    IN  Strip(JoinLines([i \in 1..Len(res) |-> res[i].s]))

\* "\n".join(res) raises TypeError when an element of res is a list
join_fails(patched) ==
    LET res == collect(patched)
    IN  \E i \in 1..Len(res) : res[i].t = "list"

(***************************************************************************)
(* The inputs: source files and patch texts over small sets of lines.      *)
(***************************************************************************)
MaxSrcLen == 3

MaxPatchLen == 3

La == <<"a">>

Lb == <<"b">>

Lc == <<"c">>

LB == <<"B">>

Lbs == <<"b", ";">>

Ctx(line) == <<" ">> \o line

Rem(line) == <<"-", " ">> \o line

Add(line) == <<"+", " ">> \o line

Hunk == <<"@", "@", " ", "-", "1", ",", "3", " ", "+", "1", ",", "3", " ", "@", "@">>

BadHunk == <<"@", "@", " ", "-", "1", " ", "+", "1", " ", "@", "@">>

SeqsUpTo(S, n) == UNION {[1..k -> S] : k \in 0..n}

\* the patch texts over a set of entries: under a hunk header, under a hunk
\* header with the first entry on its line, under a header that lacks its line
\* counts, and without any header
PatchesOver(pool) ==
    {<<Hunk>> \o body : body \in SeqsUpTo(pool, MaxPatchLen)}
        \cup {<<Hunk \o Ctx(e)>> \o body : e \in pool, body \in SeqsUpTo(pool, 1)}
        \cup {<<BadHunk>> \o body : body \in SeqsUpTo(pool, 1)}
        \cup SeqsUpTo(pool, 1)

\* lines that do not end their statement, as in ["a", "b", "c"]: a line removed
\* or replaced
WrappedInputs ==
    SeqsUpTo({La, Lb, Lc}, MaxSrcLen) \X PatchesOver({Ctx(La), Rem(Lb), Add(LB)})

\* such lines, as in ["a", "c"]: a line added
InsertionInputs ==
    SeqsUpTo({La, Lc}, MaxSrcLen) \X PatchesOver({Ctx(La), Add(Lb)})

\* lines that end their statement, after a line that does not
StatementInputs ==
    SeqsUpTo({La, Lbs, Lc}, MaxSrcLen) \X PatchesOver({Ctx(Lc), Rem(Lbs), Add(LB)})

Inputs == WrappedInputs \cup InsertionInputs \cup StatementInputs

MaxFragLen == 2

LbsCmt == <<"b", ";", "/", "/", "c">>

Blank == <<" ">>

\* a source and a generated fragment for the resolver: a statement, another one,
\* the first with a trailing comment, a blank line
ResolverInputs ==
    SeqsUpTo({Lbs, Lc, LbsCmt, Blank}, MaxSrcLen)
        \X (SeqsUpTo({Lbs, Lc, LbsCmt}, MaxFragLen) \ {<<>>})

(***************************************************************************)
(* patching(patch, raw_code_lines) as a state machine: one step for the    *)
(* code before the loop, one per patch line, one for the code after it.    *)
(***************************************************************************)
VARIABLES
    source,         \* raw_code_lines, the caller's list of source lines
    patch,          \* the generated text (a patch, a fragment), by its lines
    pc,             \* "ready", "loop", "done"
    patch_lines, code_lines, patched, unpatched, to_patch,
    replace_idx, prev_patch_idx,
    pidx,           \* the index of the next patch line of the loop
    outcome,        \* "none", "returned", or the exception raised
    result,         \* the text returned
    warnings,       \* the lines logging.warning reported
    calls           \* the resolver calls of the last step, with their results

vars == <<source, patch, pc, patch_lines, code_lines, patched, unpatched, to_patch,
          replace_idx, prev_patch_idx, pidx, outcome, result, warnings, calls>>

\* before a call on the source src and the generated text txt
Start(src, txt) ==
    /\ source = src
    /\ patch = txt
    /\ pc = "ready"
    /\ patch_lines = <<>>
    /\ code_lines = <<>>
    /\ patched = <<>>
    /\ unpatched = <<>>
    /\ to_patch = 0
    /\ replace_idx = -1
    /\ prev_patch_idx = -1
    /\ pidx = 0
    /\ outcome = "none"
    /\ result = <<>>
    /\ warnings = <<>>
    /\ calls = <<>>

Init == \E in \in Inputs : Start(in[1], in[2])

\* the record of a call of _find_a_matched_line
FindCall(idx, pline, lag, existing) ==
    [fn |-> "_find_a_matched_line", idx |-> idx, target |-> pline, lag |-> lag,
     existing |-> existing,
     ret |-> _find_a_matched_line(idx, pline, code_lines, patch_lines, lag, existing)]

\* lines 87-89: the text is not a patch
Reject ==
    /\ pc = "ready"
    /\ ~_is_a_patch(_format_patch_lines(patch))
    /\ patch_lines' = _format_patch_lines(patch)
    /\ outcome' = "NoCodeError"
    /\ pc' = "done"
    /\ UNCHANGED <<source, patch, code_lines, patched, unpatched, to_patch, replace_idx,
                   prev_patch_idx, pidx, result, warnings, calls>>

\* lines 87-98 with _format_code working on the caller's list, not on a copy
Begin_in_place ==
    /\ pc = "ready"
    /\ _is_a_patch(_format_patch_lines(patch))
    /\ patch_lines' = _format_patch_lines(patch)
    /\ LET formatted == _format_code(source)
       IN  /\ source' = formatted
           /\ code_lines' = formatted
           /\ patched' = [i \in 1..Len(formatted) |-> Str(formatted[i])]
    /\ unpatched' = <<>>
    /\ to_patch' = 0
    /\ replace_idx' = -1
    /\ prev_patch_idx' = -1
    /\ pidx' = 0
    /\ pc' = "loop"
    /\ UNCHANGED <<patch, outcome, result, warnings, calls>>

\* lines 87-98
Begin ==
    /\ pc = "ready"
    /\ _is_a_patch(_format_patch_lines(patch))
    /\ patch_lines' = _format_patch_lines(patch)
    /\ LET formatted == _format_code(source)
       IN  /\ code_lines' = formatted
           /\ patched' = [i \in 1..Len(formatted) |-> Str(formatted[i])]
    /\ unpatched' = <<>>
    /\ to_patch' = 0
    /\ replace_idx' = -1
    /\ prev_patch_idx' = -1
    /\ pidx' = 0
    /\ pc' = "loop"
    /\ UNCHANGED <<source, patch, outcome, result, warnings, calls>>

InLoop == pc = "loop" /\ pidx < Len(patch_lines)

pline == patch_lines[pidx + 1]

IsRemoved(line) == IsSigned(line, {"-"})

IsAdded(line) == ~IsRemoved(line) /\ IsSigned(line, {"+"})

\* prev_patch_idx >= 0 and prev_patch_idx + 1 == pidx
FollowsPrev == prev_patch_idx >= 0 /\ prev_patch_idx + 1 = pidx

PrevStartsWith(c) == StartsWith(patch_lines[prev_patch_idx + 1], <<c>>)

\* an exception leaves the loop; nothing is returned
Raise(exc) ==
    /\ outcome' = exc
    /\ pc' = "done"

\* logging.warning without its record
warn_dropped(line) == warnings

\* logging.warning(f"Cannot patch {pline}!"), lines 117 and 149
warn(line) == Append(warnings, line)

\* a context line, a hunk header, any line without a sign
SkipEntry ==
    /\ InLoop
    /\ ~IsRemoved(pline) /\ ~IsAdded(pline)
    /\ pidx' = pidx + 1
    /\ calls' = <<>>
    /\ UNCHANGED <<source, patch, pc, patch_lines, code_lines, patched, unpatched,
                   to_patch, replace_idx, prev_patch_idx, outcome, result, warnings>>

\* lines 103-107: a removed line right after an applied removed line
RemoveRun ==
    /\ InLoop
    /\ IsRemoved(pline)
    /\ FollowsPrev /\ PrevStartsWith("-")
    /\ to_patch' = to_patch + 1
    /\ patched' = IF replace_idx + 1 < Len(patched)
                  THEN [patched EXCEPT ![PyPos(replace_idx + 1, Len(patched))] = Str(<<>>)]
                  ELSE patched
    /\ replace_idx' = replace_idx + 1
    /\ prev_patch_idx' = pidx
    /\ pidx' = pidx + 1
    /\ calls' = <<>>
    /\ UNCHANGED <<source, patch, pc, patch_lines, code_lines, unpatched, outcome,
                   result, warnings>>

\* lines 108-118: a removed line resolved in the source
RemoveStandalone ==
    /\ InLoop
    /\ IsRemoved(pline)
    /\ ~(FollowsPrev /\ PrevStartsWith("-"))
    /\ \E call \in {FindCall(pidx, LStrip(Drop(pline, 1)), replace_idx, TRUE)} :
           /\ calls' = <<call>>
           /\ IF call.ret >= 0
              THEN /\ patched' = [patched EXCEPT ![call.ret + 1] = Str(<<>>)]
                   /\ replace_idx' = call.ret
                   /\ prev_patch_idx' = pidx
                   /\ UNCHANGED <<unpatched, warnings>>
              ELSE /\ unpatched' = Append(unpatched, <<pidx, pline>>)
                   /\ warnings' = warn(pline)
                   /\ UNCHANGED <<patched, replace_idx, prev_patch_idx>>
    /\ to_patch' = to_patch + 1
    /\ pidx' = pidx + 1
    /\ UNCHANGED <<source, patch, pc, patch_lines, code_lines, outcome, result>>

\* (pline or "")[1:].rstrip(), the text of an added line
added_text == RStrip(Drop(pline, 1))

\* lines 122-131: an added line right after an applied signed line
AddAfterPrev ==
    /\ InLoop
    /\ IsAdded(pline)
    /\ FollowsPrev
    /\ to_patch' = to_patch + 1
    /\ calls' = <<>>
    /\ IF ~PyIndexOK(replace_idx, Len(patched))
       THEN /\ Raise("IndexError")
            /\ UNCHANGED <<patched, prev_patch_idx, pidx>>
       ELSE LET pos == PyPos(replace_idx, Len(patched))
                old == patched[pos]
            IN  /\ patched' =
                     IF PrevStartsWith("-")
                     THEN [patched EXCEPT ![pos] = Str(added_text)]
                     ELSE IF PrevStartsWith("+")
                     THEN IF old.t = "str"
                          THEN [patched EXCEPT ![pos] = Str(old.s \o <<"\n">> \o added_text)]
                          ELSE [patched EXCEPT ![pos] =
                                    List(SubSeq(old.l, 1, Len(old.l) - 1)
                                         \o <<Str(added_text), old.l[Len(old.l)]>>)]
                     ELSE patched
                /\ prev_patch_idx' = pidx
                /\ pidx' = pidx + 1
                /\ UNCHANGED <<pc, outcome>>
    /\ UNCHANGED <<source, patch, patch_lines, code_lines, unpatched, replace_idx,
                   result, warnings>>

\* line 134 and line 141: the anchors of a standalone added line
pre_valid == search_valid_line(patch_lines, pidx, "pre", 1, NoList)

post_valid == search_valid_line(patch_lines, pidx, "post", 1, SomeList(code_lines))

\* lines 135-136: the call that resolves the anchor before, if there is one
calls_pre ==
    IF pre_valid # NoLine
    THEN <<FindCall(pre_valid, patch_lines[pre_valid + 1], replace_idx, FALSE)>>
    ELSE <<>>

\* lines 142-143: the call that resolves the anchor after, if there is one
calls_post ==
    IF post_valid # NoLine
    THEN <<FindCall(post_valid, patch_lines[post_valid + 1], replace_idx, FALSE)>>
    ELSE <<>>

\* lines 137 and 144: the anchor is there and its index is not negative
Resolves(anchor_calls) == anchor_calls # <<>> /\ anchor_calls[1].ret >= 0

AddStandalone == InLoop /\ IsAdded(pline) /\ ~FollowsPrev

\* lines 134-140: the added line goes after the line before it
InsertAfter ==
    /\ AddStandalone
    /\ \E pre \in {calls_pre} :
           /\ Resolves(pre)
           /\ patched' = [patched EXCEPT ![pre[1].ret + 1] = PlusEq(@, <<"\n">> \o added_text)]
           /\ replace_idx' = pre[1].ret
           /\ calls' = pre
    /\ prev_patch_idx' = pidx
    /\ to_patch' = to_patch + 1
    /\ pidx' = pidx + 1
    /\ UNCHANGED <<source, patch, pc, patch_lines, code_lines, unpatched, outcome,
                   result, warnings>>

\* lines 141-147: the added line goes before the line after it
InsertBefore ==
    /\ AddStandalone
    /\ \E pre \in {calls_pre} :
           /\ ~Resolves(pre)
           /\ \E post \in {calls_post} :
                  /\ Resolves(post)
                  /\ patched' = [patched EXCEPT ![post[1].ret + 1] =
                                     List(<<Str(added_text), @>>)]
                  /\ replace_idx' = post[1].ret
                  /\ calls' = pre \o post
    /\ prev_patch_idx' = pidx
    /\ to_patch' = to_patch + 1
    /\ pidx' = pidx + 1
    /\ UNCHANGED <<source, patch, pc, patch_lines, code_lines, unpatched, outcome,
                   result, warnings>>

\* lines 149-150 with the failed entry taken for an applied one
AddUnresolved_as_applied ==
    /\ AddStandalone
    /\ \E pre \in {calls_pre} :
           /\ ~Resolves(pre)
           /\ \E post \in {calls_post} :
                  /\ ~Resolves(post)
                  /\ calls' = pre \o post
    /\ unpatched' = Append(unpatched, <<pidx, pline>>)
    /\ warnings' = warn(pline)
    /\ to_patch' = to_patch + 1
    /\ prev_patch_idx' = pidx
    /\ pidx' = pidx + 1
    /\ UNCHANGED <<source, patch, pc, patch_lines, code_lines, patched, replace_idx,
                   outcome, result>>

\* lines 149-150: no anchor resolves
AddUnresolved ==
    /\ AddStandalone
    /\ \E pre \in {calls_pre} :
           /\ ~Resolves(pre)
           /\ \E post \in {calls_post} :
                  /\ ~Resolves(post)
                  /\ calls' = pre \o post
    /\ unpatched' = Append(unpatched, <<pidx, pline>>)
    /\ warnings' = warn(pline)
    /\ to_patch' = to_patch + 1
    /\ pidx' = pidx + 1
    /\ UNCHANGED <<source, patch, pc, patch_lines, code_lines, patched, replace_idx,
                   prev_patch_idx, outcome, result>>

AtEnd == pc = "loop" /\ pidx = Len(patch_lines)

\* line 152 with the unpatched entries counted against all the patch lines
nothing_applied_of_all_lines == Len(unpatched) = Len(patch_lines)

\* the condition of line 152
nothing_applied == Len(unpatched) = to_patch

\* lines 152-154
RaiseNoOp ==
    /\ AtEnd
    /\ nothing_applied
    /\ Raise("NotPatchError")
    /\ calls' = <<>>
    /\ UNCHANGED <<source, patch, patch_lines, code_lines, patched, unpatched, to_patch,
                   replace_idx, prev_patch_idx, pidx, result, warnings>>

\* what line 171 returns: the text, and nothing else
return_value == reconstruct(patched)

\* lines 156-171
Return ==
    /\ AtEnd
    /\ ~nothing_applied
    /\ IF join_fails(patched)
       THEN Raise("TypeError") /\ UNCHANGED result
       ELSE outcome' = "returned" /\ pc' = "done" /\ result' = return_value
    /\ calls' = <<>>
    /\ UNCHANGED <<source, patch, patch_lines, code_lines, patched, unpatched, to_patch,
                   replace_idx, prev_patch_idx, pidx, warnings>>

Next ==
    \/ Reject
    \/ Begin
    \/ SkipEntry
    \/ RemoveRun
    \/ RemoveStandalone
    \/ AddAfterPrev
    \/ InsertAfter
    \/ InsertBefore
    \/ AddUnresolved
    \/ RaiseNoOp
    \/ Return

Spec == Init /\ [][Next]_vars

(***************************************************************************)
(* The resolver called on its own, as the slicer and the locating agent    *)
(* call it (slicer.py:37, LocateAgent.py:71 and 79): on the lines of a     *)
(* generated fragment and the raw source lines.                            *)
(***************************************************************************)
InitR == \E in \in ResolverInputs : Start(in[1], in[2])

\* unique_matching(resp_lines, raw_code_lines, idx, existing=existing)
Resolve(idx, existing) ==
    /\ pc = "ready"
    /\ calls' = <<[fn |-> "unique_matching", idx |-> idx, target |-> patch[idx + 1],
                   lag |-> -1, existing |-> existing,
                   ret |-> unique_matching(patch, source, idx, FALSE, <<>>, existing)]>>
    /\ outcome' = "resolved"
    /\ pc' = "done"
    /\ UNCHANGED <<source, patch, patch_lines, code_lines, patched, unpatched, to_patch,
                   replace_idx, prev_patch_idx, pidx, result, warnings>>

\* _find_a_matched_line(idx, resp_lines[idx], raw_code_lines, resp_lines, lag, existing)
FindLine(idx, lag, existing) ==
    /\ pc = "ready"
    /\ calls' = <<[fn |-> "_find_a_matched_line", idx |-> idx, target |-> patch[idx + 1],
                   lag |-> lag, existing |-> existing,
                   ret |-> _find_a_matched_line(idx, patch[idx + 1], source, patch,
                                                lag, existing)]>>
    /\ outcome' = "resolved"
    /\ pc' = "done"
    /\ UNCHANGED <<source, patch, patch_lines, code_lines, patched, unpatched, to_patch,
                   replace_idx, prev_patch_idx, pidx, result, warnings>>

NextR ==
    \/ \E idx \in 0..(Len(patch) - 1), existing \in BOOLEAN : Resolve(idx, existing)
    \/ \E idx \in 0..(Len(patch) - 1), lag \in -1..(Len(source) - 1), existing \in BOOLEAN :
           FindLine(idx, lag, existing)

SpecR == InitR /\ [][NextR]_vars

(***************************************************************************)
(* Properties of patching.                                                 *)
(***************************************************************************)
\* the patch lines the loop takes for signed entries, in patch order
SignedLines(lines) == SelectSeq(lines, LAMBDA l : IsRemoved(l) \/ IsAdded(l))

\* the patch is a hunk header followed by context lines and signed entries
UnderHunk(txt) == txt # <<>> /\ Head(txt) = Hunk

\* the entries of the patch: its lines, a hunk header split from the text it
\* shares a line with
entries == _format_patch_lines(patch)

Finished == pc = "done" /\ outcome # "resolved"

TextAC == <<"a", "\n", "c">>

TextABc == <<"a", "\n", "B", "\n", "c">>

TextAbc == <<"a", "\n", "b", "\n", "c">>

\* C1: for the source ["a", "b", "c"] and a valid patch whose only signed entry
\* removes the line "b", patching returns exactly the text "a\nc".
C1_DeletionCorrectness ==
    (/\ Finished
     /\ source = <<La, Lb, Lc>>
     /\ UnderHunk(patch)
     /\ SignedLines(patch) = <<Rem(Lb)>>)
        => (outcome = "returned" /\ result = TextAC)

\* C2: for the source ["a", "b", "c"] and a valid patch in which the removed
\* entry for "b" is immediately followed by the added entry for "B", patching
\* returns exactly "a\nB\nc".
C2_ReplaceCorrectness ==
    (/\ Finished
     /\ source = <<La, Lb, Lc>>
     /\ UnderHunk(patch)
     /\ SignedLines(patch) = <<Rem(Lb), Add(LB)>>
     /\ \E i \in 1..(Len(patch) - 1) : patch[i] = Rem(Lb) /\ patch[i + 1] = Add(LB))
        => (outcome = "returned" /\ result = TextABc)

\* C3: for the source ["a", "c"] and a valid patch whose only signed entry adds
\* "b" directly after the context line "a", patching returns exactly "a\nb\nc".
C3_InsertionOnly ==
    (/\ Finished
     /\ source = <<La, Lc>>
     /\ UnderHunk(patch)
     /\ SignedLines(patch) = <<Add(Lb)>>
     /\ \E i \in 1..(Len(patch) - 1) : patch[i] = Ctx(La) /\ patch[i + 1] = Add(Lb))
        => (outcome = "returned" /\ result = TextAbc)

\* the text of a signed line: the line without its sign and the blanks around it
SignedText(l) == Strip(Drop(l, 1))

InLines(text, lines) == \E i \in 1..Len(lines) : two_lines_match(text, lines[i])

\* the text of every signed line of the patch is absent from the source
AllSignedTextAbsent ==
    \A i \in 1..Len(patch_lines) :
        IsRemoved(patch_lines[i]) \/ IsAdded(patch_lines[i])
            => ~InLines(SignedText(patch_lines[i]), source)

LookedUpAbsent(i) ==
    LET l == patch_lines[i]
        pre == search_valid_line(patch_lines, i - 1, "pre", 1, NoList)
        post == search_valid_line(patch_lines, i - 1, "post", 1, SomeList(code_lines))
    IN  /\ IsRemoved(l) => ~InLines(LStrip(Drop(l, 1)), code_lines)
        /\ IsAdded(l) => /\ pre # NoLine => ~InLines(patch_lines[pre + 1], code_lines)
                         /\ post = NoLine

AllLookedUpAbsent == \A i \in 1..Len(patch_lines) : LookedUpAbsent(i)

LacksHeader == \A i \in 1..Len(entries) : ~IsHunkHeader(Strip(entries[i]))

\* the patch text lacks a signed content line: a sign, blanks, content
LacksSignedLine ==
    \A i \in 1..Len(entries) :
        LET l == Strip(entries[i])
        IN  ~(Len(l) >= 3 /\ l[1] \in {"+", "-"} /\ IsSpace(l[2]))

C6_CompletionPolicy ==
    (Finished /\ outcome # "NoCodeError")
        => IF Len(unpatched) = Len(SignedLines(patch_lines))
           THEN outcome = "NotPatchError"
           ELSE outcome = "returned"

\* C7 as stated: whenever patching succeeds with some signed entries
\* unresolved, what is handed to the caller holds the reconstructed text and
\* every entry that failed.
C7_PartialReport_AsStated ==
    (Finished /\ outcome = "returned" /\ unpatched # <<>>)
        => \A k \in 1..Len(unpatched) : Contains(result, unpatched[k][2])

\* C7, amended: whenever patching succeeds with some signed entries unresolved,
\* the caller is handed the reconstructed text alone, and the entries that
\* failed are reported as logged warnings, one for each in patch order, none
\* missing.
C7_PartialReport ==
    (Finished /\ outcome = "returned")
        => /\ result = reconstruct(patched)
           /\ Len(unpatched) < Len(SignedLines(patch_lines))
           /\ warnings = [k \in 1..Len(unpatched) |-> unpatched[k][2]]
           /\ \A k \in 1..Len(unpatched) :
                  /\ patch_lines[unpatched[k][1] + 1] = unpatched[k][2]
                  /\ k > 1 => unpatched[k - 1][1] < unpatched[k][1]

\* a returned text with a removed entry unresolved
C7_Witness ==
    /\ Finished
    /\ outcome = "returned"
    /\ result # <<>>
    /\ \E k \in 1..Len(unpatched) : IsRemoved(unpatched[k][2])

(***************************************************************************)
(* Properties of the resolver, over the calls that calls records.          *)
(***************************************************************************)
\* find_matches(target, source): the indices of the source lines that match
Candidates(target) ==
    {i \in 0..(Len(source) - 1) : two_lines_match(target, source[i + 1])}

\* the indices of the source lines whose normalized form is that of target
SameNormalized(target) ==
    {i \in 0..(Len(source) - 1) :
         remove_whitespace(source[i + 1]) = remove_whitespace(target)}

ResolveCalls == {k \in 1..Len(calls) : calls[k].fn = "unique_matching"}

\* what neighbor disambiguation gives for the call c
Disambiguated(c) ==
    matching_neighbor(patch, c.idx, source, matching_lines(c.target, source),
                      c.existing, DegreeLimit)

\* C8: unique_matching returns the single candidate when there is exactly one,
\* -2 if and only if there is none, and with two or more candidates the index
\* neighbor disambiguation gives if it gives exactly one, otherwise -1; -1 is
\* never returned when there are no candidates.
C8_ResolverOutcomes ==
    \A k \in ResolveCalls :
        LET c == calls[k]
            n == Cardinality(Candidates(c.target))
        IN  /\ n = 1 => c.ret \in Candidates(c.target)
            /\ c.ret = NoCandidate <=> n = 0
            /\ n >= 2 => IF Len(Disambiguated(c)) = 1
                         THEN c.ret = Disambiguated(c)[1] /\ c.ret \in Candidates(c.target)
                         ELSE c.ret = Ambiguous
            /\ n = 0 => c.ret # Ambiguous

\* two candidates, told apart by the neighbours of the fragment line
C8_Witness ==
    \E k \in ResolveCalls :
        /\ Cardinality(Candidates(calls[k].target)) >= 2
        /\ calls[k].ret >= 0

\* C9: every non-negative result of unique_matching and of
\* _find_a_matched_line is an index i with 0 <= i < len(source) such that the
\* target matches source[i]; a failed match is one of the sentinels -1 and -2.
C9_ResultIsValidIndex ==
    \A k \in 1..Len(calls) :
        IF calls[k].ret >= 0
        THEN /\ calls[k].ret < Len(source)
             /\ two_lines_match(calls[k].target, source[calls[k].ret + 1])
        ELSE calls[k].ret \in {NoCandidate, Ambiguous}

\* _find_a_matched_line picks one of several candidates behind the cursor
C9_Witness ==
    \E k \in 1..Len(calls) :
        /\ calls[k].fn = "_find_a_matched_line"
        /\ calls[k].lag >= 0
        /\ Cardinality(Candidates(calls[k].target)) >= 2
        /\ calls[k].ret > calls[k].lag

\* C10 as stated: if the normalized form of the target equals the normalized
\* form of exactly one source line, unique_matching returns that line's index.
C10_UniquenessStability_AsStated ==
    \A k \in ResolveCalls :
        Cardinality(SameNormalized(calls[k].target)) = 1
            => calls[k].ret \in SameNormalized(calls[k].target)

\* C10, amended: if the target matches exactly one source line (two_lines_match:
\* both lines not blank, trailing comments left out), unique_matching returns
\* that line's index, whatever lines surround the target in the fragment; the
\* degree limit, 5, plays no part.
C10_UniquenessStability ==
    \A k \in ResolveCalls :
        Cardinality(Candidates(calls[k].target)) = 1
            => calls[k].ret \in Candidates(calls[k].target)

\* a single candidate, at the end of a source of three lines, for a fragment
\* line with a neighbour the source does not hold next to it
C10_Witness ==
    \E k \in ResolveCalls :
        /\ Candidates(calls[k].target) = {2}
        /\ calls[k].ret = 2
        /\ Len(source) = 3
        /\ Len(patch) = 2
        /\ calls[k].idx = 1
        /\ is_valid_line(patch[1], 0)
        /\ ~two_lines_match(patch[1], source[2])

(***************************************************************************)
(* The resolver on a source that holds a line twice: the calls of          *)
(* unique_matching and of _find_a_matched_line for the fragments over the  *)
(* lines of that source.                                                   *)
(***************************************************************************)
Lx == <<"x">>

Ly == <<"y">>

Lz == <<"z">>

Ldup == <<"d", "u", "p">>

DupSource == <<Lx, Ldup, Ly, Ldup, Lz>>

MaxNbrLen == 4

NeighborFragments == SeqsUpTo({Ldup, Ly, Lz, Blank}, MaxNbrLen) \ {<<>>}

InitN == \E frag \in NeighborFragments : Start(DupSource, frag)

SpecN == InitN /\ [][NextR]_vars

\* the fragment line idx has the valid neighbour before before it and the
\* valid neighbour after after it
HasNeighbors(idx, before, after) ==
    /\ search_valid_line(patch, idx, "pre", 1, NoList) # NoLine
    /\ patch[search_valid_line(patch, idx, "pre", 1, NoList) + 1] = before
    /\ search_valid_line(patch, idx, "post", 1, NoList) # NoLine
    /\ patch[search_valid_line(patch, idx, "post", 1, NoList) + 1] = after

\* C11: on the source ["x", "dup", "y", "dup", "z"], a fragment line "dup" with
\* the valid neighbour "y" before it and the valid neighbour "z" after it is
\* resolved to index 3, the second "dup": never to index 1, never to a sentinel.
C11_NeighborResolution ==
    \A k \in 1..Len(calls) :
        (/\ source = DupSource
         /\ calls[k].target = Ldup
         /\ HasNeighbors(calls[k].idx, Ly, Lz)) => calls[k].ret = 3

\* unique_matching has told the two "dup" apart by neighbours that a blank
\* line separates from the fragment line
C11_Witness ==
    \E k \in ResolveCalls :
        /\ source = DupSource
        /\ calls[k].target = Ldup
        /\ HasNeighbors(calls[k].idx, Ly, Lz)
        /\ Candidates(Ldup) = {1, 3}
        /\ patch[calls[k].idx] = Blank
        /\ calls[k].ret = 3

(***************************************************************************)
(* The functions of src/src/parse.py on lines: remove_whitespace and       *)
(* is_valid_line called on one line, two_lines_match on a pair of lines.   *)
(***************************************************************************)
MaxTokens == 3

MaxMinLen == 2

\* the characters of the pieces, one after the other
RECURSIVE Flatten(_)
Flatten(pieces) == IF pieces = <<>> THEN <<>> ELSE Head(pieces) \o Flatten(Tail(pieces))

LinesOver(pool, n) == {Flatten(pieces) : pieces \in SeqsUpTo(pool, n)}

SingleLines ==
    LinesOver({<<"a">>, <<" ">>, <<"\t">>, <<"\n">>, <<"\r">>, <<"+">>, <<"-">>,
               Slashes, Missing, Buggy}, MaxTokens)

PairLines == LinesOver({<<"a">>, <<" ">>, <<"\t">>, Slashes}, MaxTokens)

LineInputs ==
    {<<line>> : line \in SingleLines} \cup {<<a, b>> : a \in PairLines, b \in PairLines}

InitP == \E lines \in LineInputs : Start(lines, <<>>)

\* the record of a call of a function on lines
LineCall(fn, arg, other, length, ret) ==
    [fn |-> fn, arg |-> arg, other |-> other, length |-> length, ret |-> ret]

\* remove_whitespace(line)
Normalize ==
    /\ pc = "ready"
    /\ Len(source) = 1
    /\ calls' = <<LineCall("remove_whitespace", source[1], <<>>, 0,
                           remove_whitespace(source[1]))>>
    /\ pc' = "normalized"
    /\ UNCHANGED <<source, patch, patch_lines, code_lines, patched, unpatched, to_patch,
                   replace_idx, prev_patch_idx, pidx, outcome, result, warnings>>

\* remove_whitespace(remove_whitespace(line))
NormalizeAgain ==
    /\ pc = "normalized"
    /\ calls' = Append(calls, LineCall("remove_whitespace", calls[1].ret, <<>>, 0,
                                       remove_whitespace(calls[1].ret)))
    /\ outcome' = "resolved"
    /\ pc' = "done"
    /\ UNCHANGED <<source, patch, patch_lines, code_lines, patched, unpatched, to_patch,
                   replace_idx, prev_patch_idx, pidx, result, warnings>>

\* is_valid_line(line, length)
Validate(length) ==
    /\ pc = "ready"
    /\ Len(source) = 1
    /\ calls' = <<LineCall("is_valid_line", source[1], <<>>, length,
                           is_valid_line(source[1], length))>>
    /\ outcome' = "resolved"
    /\ pc' = "done"
    /\ UNCHANGED <<source, patch, patch_lines, code_lines, patched, unpatched, to_patch,
                   replace_idx, prev_patch_idx, pidx, result, warnings>>

\* two_lines_match(line1, line2) and two_lines_match(line2, line1)
Match ==
    /\ pc = "ready"
    /\ Len(source) = 2
    /\ calls' = <<LineCall("two_lines_match", source[1], source[2], 0,
                           two_lines_match(source[1], source[2])),
                  LineCall("two_lines_match", source[2], source[1], 0,
                           two_lines_match(source[2], source[1]))>>
    /\ outcome' = "resolved"
    /\ pc' = "done"
    /\ UNCHANGED <<source, patch, patch_lines, code_lines, patched, unpatched, to_patch,
                   replace_idx, prev_patch_idx, pidx, result, warnings>>

NextP ==
    \/ Normalize
    \/ NormalizeAgain
    \/ \E length \in 0..MaxMinLen : Validate(length)
    \/ Match

SpecP == InitP /\ [][NextP]_vars

CallsOf(fn) == {k \in 1..Len(calls) : calls[k].fn = fn}

\* C12: normalization is idempotent: remove_whitespace applied to its own
\* result gives that result again, for every line.
C12_NormalizeIdempotent ==
    (pc = "done" /\ CallsOf("remove_whitespace") # {}) => calls[2].ret = calls[1].ret

\* a line with blanks and newlines in it, normalized twice
C12_Witness ==
    /\ pc = "done"
    /\ CallsOf("remove_whitespace") = {1, 2}
    /\ Contains(calls[1].arg, <<" ">>)
    /\ Contains(calls[1].arg, <<"\n">>)
    /\ calls[1].ret = <<"a">>
    /\ calls[2].ret = <<"a">>

\* C13: the result of remove_whitespace holds no whitespace character of any
\* kind: no space, no tab, no carriage return, no newline.
C13_NoWhitespaceLeft ==
    \A k \in CallsOf("remove_whitespace") :
        \A i \in 1..Len(calls[k].ret) : ~IsSpace(calls[k].ret[i])

(***************************************************************************)
(* Properties of the slots, of the inputs and of the cursor of patching.   *)
(***************************************************************************)
\* the pass has created the slots: the loop runs, or it has ended
HasSlots == pc = "loop" \/ (Finished /\ outcome # "NoCodeError")

\* C14: throughout a patching pass, after every processed patch entry, patched
\* has exactly as many slots as the source has lines.
C14_SlotCount == HasSlots => Len(patched) = Len(source)

\* all entries processed on a source of three lines: one slot emptied and one
\* slot turned into a list
C14_Witness ==
    /\ pc = "loop"
    /\ pidx = Len(patch_lines)
    /\ Len(source) = 3
    /\ \E i \in 1..Len(patched) : patched[i].t = "list"
    /\ \E j \in 1..Len(patched) : patched[j] = Str(<<>>) /\ code_lines[j] # <<>>

\* C15: patching never mutates its inputs: in every step of a call, whatever
\* its outcome, the caller's source lines and the patch text stay what they
\* were, and the loop leaves the reformatted source, code_lines, as it is.
C15_InputsNotMutated ==
    [][/\ source' = source
       /\ patch' = patch
       /\ pc = "loop" => code_lines' = code_lines]_vars

\* a text is returned for a source that _format_code has reshaped, from slots
\* that differ from the reformatted lines
C15_Witness ==
    /\ Finished
    /\ outcome = "returned"
    /\ code_lines # source
    /\ \E i \in 1..Len(patched) : patched[i] # Str(code_lines[i])

\* what a slot emits: nothing if it is empty, its string, or the elements of
\* its list in list order
EmittedBy(p) ==
    IF p.t = "str"
    THEN IF p.s = <<>> THEN <<>> ELSE <<p.s>>
    ELSE [k \in 1..Len(p.l) |-> p.l[k].s]

\* what the slots 1..n emit, in increasing slot index
RECURSIVE Emitted(_, _)
Emitted(slots, n) ==
    IF n = 0 THEN <<>> ELSE Emitted(slots, n - 1) \o EmittedBy(slots[n])

\* C16: the returned text is what the slots emit in increasing slot index
\* (empty slots skipped, a string slot as it is, a list slot element by
\* element in list order), joined by newlines and trimmed, so that what slot i
\* emits comes before what slot j emits for i < j.
C16_Reconstruction ==
    outcome = "returned" => result = Strip(JoinLines(Emitted(patched, Len(patched))))

\* a text of three lines returned from three slots: a string, an emptied slot
\* and a list of two elements
C16_Witness ==
    /\ outcome = "returned"
    /\ Len(patched) = 3
    /\ \E i \in 1..3 : patched[i].t = "list" /\ Len(patched[i].l) = 2
    /\ \E j \in 1..3 : patched[j] = Str(<<>>) /\ code_lines[j] # <<>>
    /\ Len(Emitted(patched, 3)) = 3

\* the next entry is an added line right after an applied signed line: lines
\* 125-129 read or write patched[replace_idx]
UsesCursor == InLoop /\ IsAdded(pline) /\ FollowsPrev

\* C17: wherever the pass uses the cursor replace_idx to read or write a slot
\* (the replace pair, the added-after-added run), 0 <= replace_idx < the
\* number of slots, also after a run of contiguous deletions.
C17_CursorValidity ==
    UsesCursor => (0 <= replace_idx /\ replace_idx < Len(patched))

\* the characters of the lines without their whitespace, in line order
NormalizedText(lines) ==
    Flatten([i \in 1..Len(lines) |-> remove_whitespace(lines[i])])

\* C20: _format_code only reshapes line breaks: the normalized forms of the
\* reformatted lines, concatenated in order, are the normalized forms of the
\* original lines concatenated in order; no token is duplicated or dropped.
C20_ReformatOnlyReshapes ==
    HasSlots => NormalizedText(code_lines) = NormalizedText(source)

(***************************************************************************)
(* Properties of is_valid_line and of two_lines_match, over the calls that *)
(* calls records.                                                          *)
(***************************************************************************)
\* the line holds nothing but whitespace
AllSpace(line) == \A i \in 1..Len(line) : IsSpace(line[i])

\* the first character of the line that is not whitespace is c
FirstVisibleIs(line, c) ==
    \E i \in 1..Len(line) : line[i] = c /\ \A j \in 1..(i - 1) : IsSpace(line[j])

\* the conditions under which is_valid is said to fail
Rejected(line, min_len) ==
    \/ AllSpace(line)
    \/ Len(remove_whitespace(line)) <= min_len
    \/ FirstVisibleIs(line, "+")
    \/ Contains(line, Missing)
    \/ Contains(line, Buggy)

\* a diff marker line: a removed or an added line of a patch
IsDiffMarker(line) == IsSigned(Strip(line), {"-", "+"})

\* C18 as stated: is_valid_line returns false exactly when the line is empty
\* after whitespace removal, or its normalized length is <= min_len, or the
\* trimmed line starts with "+", or the line contains "missing" or "buggy",
\* and it rejects every diff marker line.
C18_ValidLine_AsStated ==
    \A k \in CallsOf("is_valid_line") :
        /\ calls[k].ret = FALSE <=> Rejected(calls[k].arg, calls[k].length)
        /\ IsDiffMarker(calls[k].arg) => calls[k].ret = FALSE

\* C18, amended: is_valid_line returns false exactly when the line is empty
\* after whitespace removal, or its normalized length is <= min_len, or the
\* trimmed line starts with "+", or the line contains "missing" or "buggy", and
\* true for every other line; of the diff marker lines it rejects the added
\* ones, a removed line ("- x") is valid when it is long enough.
C18_ValidLine ==
    \A k \in CallsOf("is_valid_line") :
        /\ calls[k].ret = FALSE <=> Rejected(calls[k].arg, calls[k].length)
        /\ (IsDiffMarker(calls[k].arg) /\ FirstVisibleIs(calls[k].arg, "+"))
               => calls[k].ret = FALSE
        /\ (/\ IsDiffMarker(calls[k].arg)
            /\ FirstVisibleIs(calls[k].arg, "-")
            /\ ~Rejected(calls[k].arg, calls[k].length)) => calls[k].ret = TRUE

\* the removed line "- a" is valid for min_len 1
C18_Witness ==
    \E k \in CallsOf("is_valid_line") :
        /\ calls[k].arg = <<"-", " ", "a">>
        /\ calls[k].length = 1
        /\ calls[k].ret = TRUE

\* the line is a comment from its first visible character on
FullLineComment(line) == StartsWith(LStrip(line), Slashes)

\* the line without its trailing line comment, normalized
NormalizedCode(line) == remove_whitespace(SplitHead(line, Slashes))

\* C19 as stated: two_lines_match(a, b) holds if and only if either both lines
\* are full-line comments and their normalized forms are identical, or
\* otherwise the normalized forms of a and b with any trailing line comment
\* stripped are equal; the relation is symmetric.
C19_LinesMatch_AsStated ==
    /\ \A k \in CallsOf("two_lines_match") :
           calls[k].ret <=>
               IF FullLineComment(calls[k].arg) /\ FullLineComment(calls[k].other)
               THEN remove_whitespace(calls[k].arg) = remove_whitespace(calls[k].other)
               ELSE NormalizedCode(calls[k].arg) = NormalizedCode(calls[k].other)
    /\ CallsOf("two_lines_match") # {} => calls[1].ret = calls[2].ret

\* C19, amended: two_lines_match(a, b) holds if and only if neither line is
\* blank and either both lines are full-line comments and the normalized forms
\* of the trimmed lines are identical, or otherwise the normalized forms of a
\* and b with any trailing line comment stripped are equal and not empty; the
\* relation is symmetric.
C19_LinesMatch ==
    /\ \A k \in CallsOf("two_lines_match") :
           calls[k].ret <=>
               /\ ~AllSpace(calls[k].arg)
               /\ ~AllSpace(calls[k].other)
               /\ IF FullLineComment(calls[k].arg) /\ FullLineComment(calls[k].other)
                  THEN remove_whitespace(Strip(calls[k].arg))
                           = remove_whitespace(Strip(calls[k].other))
                  ELSE /\ NormalizedCode(calls[k].arg) = NormalizedCode(calls[k].other)
                       /\ NormalizedCode(calls[k].arg) # <<>>
    /\ CallsOf("two_lines_match") # {} => calls[1].ret = calls[2].ret

\* a line matches the same line with a trailing comment, in both orders
C19_Witness ==
    /\ CallsOf("two_lines_match") = {1, 2}
    /\ calls[1].arg = <<"a">>
    /\ calls[1].other = <<"a", "/", "/", "a">>
    /\ calls[1].ret = TRUE
    /\ calls[2].ret = TRUE

(***************************************************************************)
(* patching_and_testing with a container id: the patch is applied to the   *)
(* file read from the container, the text is copied back and the tests     *)
(* run.  What docker and defects4j do is the environment's choice.         *)
(***************************************************************************)
MaxFailing == 2

\* what a run of testing can meet: a failed build, a timeout, another
\* exception, an output without "Failing tests: n", or n failing tests
TestRuns ==
    {[kind |-> k, n |-> 0] : k \in {"BUILD FAILED", "Timeout", "Exception", "unparsable"}}
        \cup {[kind |-> "Failing tests", n |-> n] : n \in 0..MaxFailing}

\* lines 173-210: the number of failing tests, -1 when it is not known
testing(run) == IF run.kind = "Failing tests" THEN run.n ELSE -1

\* the record of what the wrapper did to the container, or met
Step(fn, ret) == [fn |-> fn, ret |-> ret]

\* lines 225-229: the docker SDK cannot be imported
NoDocker ==
    /\ pc = "ready"
    /\ calls' = <<Step("import docker", "failed")>>
    /\ outcome' = "None"
    /\ pc' = "returned"
    /\ UNCHANGED <<source, patch, patch_lines, code_lines, patched, unpatched, to_patch,
                   replace_idx, prev_patch_idx, pidx, result, warnings>>

\* lines 249-253: patching raised NoCodeError or NotPatchError
CannotApply ==
    /\ pc = "done"
    /\ outcome \in {"NoCodeError", "NotPatchError"}
    /\ calls' = <<Step("patching", outcome)>>
    /\ outcome' = "None"
    /\ pc' = "returned"
    /\ UNCHANGED <<source, patch, patch_lines, code_lines, patched, unpatched, to_patch,
                   replace_idx, prev_patch_idx, pidx, result, warnings>>

\* lines 256-268: the text is copied into the container
WriteBack ==
    /\ pc = "done"
    /\ outcome = "returned"
    /\ calls' = <<Step("patching", outcome), Step("docker cp", "copied")>>
    /\ pc' = "copied"
    /\ UNCHANGED <<source, patch, patch_lines, code_lines, patched, unpatched, to_patch,
                   replace_idx, prev_patch_idx, pidx, outcome, result, warnings>>

\* lines 260-264: docker cp fails and subprocess.run raises
CopyFails ==
    /\ pc = "done"
    /\ outcome = "returned"
    /\ calls' = <<Step("patching", outcome), Step("docker cp", "failed")>>
    /\ outcome' = "CalledProcessError"
    /\ pc' = "returned"
    /\ UNCHANGED <<source, patch, patch_lines, code_lines, patched, unpatched, to_patch,
                   replace_idx, prev_patch_idx, pidx, result, warnings>>

\* line 271: return testing(...) == 0
Test(run) ==
    /\ pc = "copied"
    /\ calls' = calls \o <<Step("testing", run.kind)>>
    /\ outcome' = IF testing(run) = 0 THEN "True" ELSE "False"
    /\ pc' = "returned"
    /\ UNCHANGED <<source, patch, patch_lines, code_lines, patched, unpatched, to_patch,
                   replace_idx, prev_patch_idx, pidx, result, warnings>>

NextT ==
    \/ Next
    \/ NoDocker
    \/ CannotApply
    \/ WriteBack
    \/ CopyFails
    \/ \E run \in TestRuns : Test(run)

SpecT == Init /\ [][NextT]_vars

\* the call of patching_and_testing is over: it has returned, or an exception
\* of patching that it does not catch has ended it
Ended == pc = "returned" \/ (pc = "done" /\ outcome \notin {"returned", "NoCodeError", "NotPatchError"})

Did(fn, ret) == \E k \in 1..Len(calls) : calls[k].fn = fn /\ calls[k].ret = ret

\* docker itself has failed: the SDK is missing or the copy did not work
DockerFailed == Did("import docker", "failed") \/ Did("docker cp", "failed")

\* C21: with a container id (and docker at work), patching_and_testing returns
\* None whenever patching raises NoCodeError or NotPatchError, True only when
\* the tests report zero failing tests, False in every other case, and it never
\* copies a file into the container when the patch cannot be applied.
C21_Verdict ==
    (Ended /\ ~DockerFailed) =>
        /\ outcome \in {"None", "True", "False"}
        /\ (Did("patching", "NoCodeError") \/ Did("patching", "NotPatchError"))
               <=> outcome = "None"
        /\ outcome = "True" => Did("testing", "Failing tests")
        /\ Did("docker cp", "copied") => Did("patching", "returned")

(***************************************************************************)
(* The resolver and search_valid_line on sources that hold a run of one    *)
(* line, where the neighbours next to a candidate do not tell it apart.    *)
(***************************************************************************)
RunSources == {<<Ly, Ldup, Ldup, Ldup>>, <<Ldup, Ldup, Ldup, Lz>>}

MaxDegree == 3

\* a source of one repeated line, long enough for the neighbours of two of
\* its lines to agree at every degree up to DegreeLimit
RunLen == 12

LongRun(n) == [i \in 1..n |-> Ldup]

InitD ==
    \/ \E src \in RunSources, frag \in NeighborFragments : Start(src, frag)
    \/ Start(LongRun(RunLen), LongRun(RunLen - 1))

\* search_valid_line(resp_lines, idx, mode, degree, existing) on its own
Search(idx, mode, degree, existing) ==
    /\ pc = "ready"
    /\ calls' = <<[fn |-> "search_valid_line", idx |-> idx, mode |-> mode,
                   degree |-> degree, existing |-> existing,
                   ret |-> search_valid_line(patch, idx, mode, degree,
                                             IF existing THEN SomeList(source) ELSE NoList)]>>
    /\ outcome' = "resolved"
    /\ pc' = "done"
    /\ UNCHANGED <<source, patch, patch_lines, code_lines, patched, unpatched, to_patch,
                   replace_idx, prev_patch_idx, pidx, result, warnings>>

NextD ==
    \/ NextR
    \/ \E idx \in 0..(Len(patch) - 1), mode \in {"pre", "post"}, degree \in 1..MaxDegree, existing \in BOOLEAN :
           Search(idx, mode, degree, existing)

SpecD == InitD /\ [][NextD]_vars

\* at degree k on the side mode, the neighbour of the candidate cand in the
\* source matches the neighbour of the fragment line of the call c
NeighborMatched(c, cand, mode, k) ==
    /\ search_valid_line(patch, c.idx, mode, k,
                         IF c.existing THEN SomeList(source) ELSE NoList) # NoLine
    /\ search_valid_line(source, cand, mode, k, NoList) # NoLine
    /\ two_lines_match(
           patch[search_valid_line(patch, c.idx, mode, k,
                                   IF c.existing THEN SomeList(source) ELSE NoList) + 1],
           source[search_valid_line(source, cand, mode, k, NoList) + 1])

\* the candidates whose neighbours matched at every degree 1..d on the side
Survivors(c, mode, d) ==
    {cand \in Candidates(c.target) : \A k \in 1..d : NeighborMatched(c, cand, mode, k)}

\* at degree d the loop of matching_neighbor has a single winner
UniqueAt(c, d) ==
    \/ Cardinality(Survivors(c, "pre", d)) = 1
    \/ Cardinality(Survivors(c, "post", d)) = 1
    \/ Cardinality(Survivors(c, "pre", d) \cap Survivors(c, "post", d)) = 1

SearchCalls == {k \in 1..Len(calls) : calls[k].fn = "search_valid_line"}

\* the fragment lines on the side of the call c, start_idx left out, that are
\* valid and, when the call passes existing, match some line of the source
Eligible(c) ==
    {j \in 0..(Len(patch) - 1) :
        /\ IF c.mode = "pre" THEN j < c.idx ELSE j > c.idx
        /\ is_valid_line(patch[j + 1], 0)
        /\ c.existing => \E i \in 1..Len(source) : two_lines_match(source[i], patch[j + 1])}

\* the eligible lines from start_idx outward up to the line j
UpTo(c, j) == {i \in Eligible(c) : IF c.mode = "pre" THEN i >= j ELSE i <= j}

\* C23: search_valid_line returns the degree-th line, counted outward from
\* start_idx and leaving start_idx out, that is valid and, when existing is
\* given, matches some line of existing; it returns none exactly when fewer
\* than degree such lines lie on that side; the index it returns is strictly
\* before start_idx for "pre" and strictly after it for "post".
C23_NeighborSearch ==
    \A k \in SearchCalls :
        /\ calls[k].ret = NoLine <=> Cardinality(Eligible(calls[k])) < calls[k].degree
        /\ calls[k].ret # NoLine =>
               /\ calls[k].ret \in Eligible(calls[k])
               /\ Cardinality(UpTo(calls[k], calls[k].ret)) = calls[k].degree
               /\ IF calls[k].mode = "pre" THEN calls[k].ret < calls[k].idx
                                           ELSE calls[k].ret > calls[k].idx

\* a search of degree two that steps over a line the source does not hold
C23_Witness ==
    \E k \in SearchCalls :
        /\ calls[k].existing
        /\ calls[k].degree = 2
        /\ calls[k].ret # NoLine
        /\ \E j \in 0..(Len(patch) - 1) :
               /\ j \notin Eligible(calls[k])
               /\ is_valid_line(patch[j + 1], 0)
               /\ IF calls[k].mode = "pre" THEN calls[k].ret < j /\ j < calls[k].idx
                                           ELSE calls[k].idx < j /\ j < calls[k].ret

(***************************************************************************)
(* The steps of the patching loop, entry by entry.                         *)
(***************************************************************************)
\* the patch line i is a signed entry the loop has applied
EntryApplied(i) ==
    /\ i \in 0..(pidx - 1)
    /\ IsRemoved(patch_lines[i + 1]) \/ IsAdded(patch_lines[i + 1])
    /\ \A k \in 1..Len(unpatched) : unpatched[k][1] # i

\* the patch line before the current one is a removed entry that was applied
AfterAppliedRemoved == pidx > 0 /\ IsRemoved(patch_lines[pidx]) /\ EntryApplied(pidx - 1)

\* the loop is at a removed entry
AtRemoved == InLoop /\ IsRemoved(pline)

Cleared(slots, i) == i \in 1..Len(slots) /\ slots[i] = Str(<<>>)

\* C24: a removed entry directly after an applied removed entry clears the
\* slot at cursor+1 and advances the cursor by one, with no call of the
\* resolver; any other removed entry is resolved by one call with the
\* existing-lines filter, and when the call finds a slot, that slot is
\* cleared and the cursor is set to it.
C24_DeletionRun ==
    [][AtRemoved =>
          IF AfterAppliedRemoved
          THEN /\ Cleared(patched', replace_idx + 2)
               /\ replace_idx' = replace_idx + 1
               /\ calls' = <<>>
          ELSE /\ Len(calls') = 1
               /\ calls'[1].fn = "_find_a_matched_line"
               /\ calls'[1].idx = pidx
               /\ calls'[1].existing
               /\ calls'[1].ret >= 0 =>
                      /\ Cleared(patched', calls'[1].ret + 1)
                      /\ replace_idx' = calls'[1].ret]_vars

(***************************************************************************)
(* Patches of up to MaxEditLen entries with two different added lines,     *)
(* over sources whose lines end their statement: runs of added lines after *)
(* a replaced line, after an anchor and before an anchor.                  *)
(***************************************************************************)
MaxEditLen == 4

EditSources == {<<Lc>>, <<Lbs, Lc>>, <<Lbs, Lbs, Lc>>}

EditInputs ==
    EditSources \X
        {<<Hunk>> \o body : body \in SeqsUpTo({Ctx(Lc), Rem(Lbs), Add(La), Add(LB)}, MaxEditLen)}

InitA == \E in \in EditInputs : Start(in[1], in[2])

SpecA == InitA /\ [][Next]_vars

\* text.split("\n")
RECURSIVE SplitLines(_)
SplitLines(text) ==
    IF \E i \in 1..Len(text) : text[i] = "\n"
    THEN LET i == CHOOSE j \in 1..Len(text) :
                     text[j] = "\n" /\ \A k \in 1..(j - 1) : text[k] # "\n"
         IN  <<SubSeq(text, 1, i - 1)>> \o SplitLines(SubSeq(text, i + 1, Len(text)))
    ELSE <<text>>

\* the lines a slot gives to the text that lines 160-171 join
SlotLines(p) == IF EmittedBy(p) = <<>> THEN <<>> ELSE SplitLines(JoinLines(EmittedBy(p)))

\* the text of the added entry at the patch line i
AddedText(i) == RStrip(Drop(patch_lines[i + 1], 1))

\* the step applies the added entry the loop is at
AppliesAdded == InLoop /\ IsAdded(pline) /\ prev_patch_idx' = pidx

\* new is old with the line text put in right after a line prev
PutAfter(old, new, prev, text) ==
    \E k \in 1..Len(old) :
        /\ old[k] = prev
        /\ new = SubSeq(old, 1, k) \o <<text>> \o SubSeq(old, k + 1, Len(old))

\* C25: a run of consecutive added entries attached to one slot keeps the
\* patch order: an added entry directly after an applied added entry puts
\* its line right after that entry's line in the lines the slot gives to the
\* reconstructed text; the first added entry after a removed one makes its
\* line the slot's only line; a standalone added entry put after its anchor
\* makes its line the slot's last, after the lines the slot held, and one put
\* before its anchor makes its line the slot's first, before them.
C25_AddedRunOrder ==
    [][AppliesAdded =>
          IF FollowsPrev /\ IsAdded(patch_lines[prev_patch_idx + 1])
          THEN PutAfter(SlotLines(patched[replace_idx' + 1]), SlotLines(patched'[replace_idx' + 1]),
                        AddedText(prev_patch_idx), added_text)
          ELSE IF FollowsPrev
          THEN SlotLines(patched'[replace_idx' + 1]) = <<added_text>>
          ELSE IF Len(calls') = 1
          THEN /\ SlotLines(patched'[replace_idx' + 1])[Len(SlotLines(patched'[replace_idx' + 1]))] = added_text
               /\ SubSeq(SlotLines(patched'[replace_idx' + 1]), 1, Len(SlotLines(patched[replace_idx' + 1])))
                      = SlotLines(patched[replace_idx' + 1])
          ELSE /\ SlotLines(patched'[replace_idx' + 1])[1] = added_text
               /\ Tail(SlotLines(patched'[replace_idx' + 1])) = SlotLines(patched[replace_idx' + 1])]_vars

\* the loop is at an added entry that does not directly follow an applied
\* signed entry
AtStandaloneAdded == InLoop /\ IsAdded(pline) /\ ~(pidx > 0 /\ EntryApplied(pidx - 1))

\* the valid patch lines before and after the entry the loop is at
ValidBefore == {j \in 0..(pidx - 1) : is_valid_line(patch_lines[j + 1], 0)}

ValidAfter == {j \in (pidx + 1)..(Len(patch_lines) - 1) : is_valid_line(patch_lines[j + 1], 0)}

Nearest(S) == CHOOSE j \in S : \A i \in S : (i - pidx) * (i - pidx) >= (j - pidx) * (j - pidx)

\* the slot of the source the patch line j resolves to, if there is such a
\* line; a negative number if not
AnchorSlot(S) ==
    IF S = {} THEN NoCandidate
    ELSE _find_a_matched_line(Nearest(S), patch_lines[Nearest(S) + 1], code_lines, patch_lines,
                              replace_idx, FALSE)

\* a line attached after the content of a slot
AttachedAfter(p, text) ==
    IF p.t = "str" THEN Str(p.s \o <<"\n">> \o text) ELSE List(Append(p.l, Str(text)))

\* C26: a standalone added entry first takes the nearest valid patch line
\* before it and resolves it in the source; if that resolves, the new text is
\* attached after the content of that slot; only if there is no such line or
\* it does not resolve, the entry takes the nearest valid patch line after
\* it, and if that resolves, the slot becomes the list of the new line and the
\* original line; if neither resolves, the entry is recorded as unpatched and
\* no slot changes.
C26_StandaloneAdded ==
    [][AtStandaloneAdded =>
          \E before \in {AnchorSlot(ValidBefore)} :
              IF before >= 0
              THEN /\ patched' = [patched EXCEPT ![before + 1] = AttachedAfter(@, added_text)]
                   /\ unpatched' = unpatched
              ELSE \E after \in {AnchorSlot(ValidAfter)} :
                       IF after >= 0
                       THEN /\ patched' = [patched EXCEPT ![after + 1] =
                                               List(<<Str(added_text), Str(code_lines[after + 1])>>)]
                            /\ unpatched' = unpatched
                       ELSE /\ patched' = patched
                            /\ unpatched' = Append(unpatched, <<pidx, pline>>)]_vars

\* the texts of the added entries of the patch
AddedTexts ==
    {RStrip(Drop(patch_lines[i], 1)) : i \in {j \in 1..Len(patch_lines) : IsAdded(patch_lines[j])}}

\* the slot i is empty, a single string, or a list whose elements are each a
\* whole line: the text of an added entry or the original line of the slot
WellShaped(i) ==
    \/ patched[i].t = "str"
    \/ /\ patched[i].t = "list"
       /\ \A k \in 1..Len(patched[i].l) :
              /\ patched[i].l[k].t = "str"
              /\ patched[i].l[k].s \in AddedTexts \cup {code_lines[i]}

\* C27: after every processed patch entry each slot is empty, a single
\* string, or a list whose elements are each a whole line, an added entry's
\* text or the slot's original line; also after an insert-after on a slot
\* that an insert-before had turned into a list.
C27_SlotShape ==
    HasSlots => \A i \in 1..Len(patched) : WellShaped(i)

\* the loop is at a signed entry
AtSigned == InLoop /\ (IsRemoved(pline) \/ IsAdded(pline))

\* the step records the entry as unpatched
Fails == unpatched' = Append(unpatched, <<pidx, pline>>)

\* the step applies the entry
Applies == prev_patch_idx' = pidx /\ unpatched' = unpatched

\* the slots whose content the step changes
Changed == {i \in 1..Len(patched) : patched'[i] # patched[i]}

\* C28: a step on a context line, a hunk header or any other line without a
\* sign, and a step on a signed entry that fails to resolve, leave every
\* slot, the cursor and prev_patch_idx as they are, the failed entry adding
\* itself to unpatched and nothing else; a step that applies a signed entry
\* changes the content of at most one slot.
C28_Frame ==
    [][InLoop =>
          /\ Len(patched') = Len(patched)
          /\ ~AtSigned =>
                 /\ patched' = patched /\ replace_idx' = replace_idx
                 /\ prev_patch_idx' = prev_patch_idx /\ unpatched' = unpatched
          /\ AtSigned =>
                 \/ /\ Fails
                    /\ patched' = patched /\ replace_idx' = replace_idx
                    /\ prev_patch_idx' = prev_patch_idx
                 \/ /\ Applies
                    /\ Cardinality(Changed) <= 1
                 \/ /\ outcome' = "IndexError"
                    /\ patched' = patched /\ unpatched' = unpatched]_vars

\* a signed entry has just failed after another one was applied: the slot that
\* one changed, the cursor and prev_patch_idx are what it left
C28_Witness ==
    /\ pc = "loop"
    /\ pidx > 1
    /\ unpatched # <<>>
    /\ unpatched[Len(unpatched)][1] = pidx - 1
    /\ prev_patch_idx >= 0
    /\ prev_patch_idx < pidx - 1
    /\ replace_idx >= 0
    /\ \E i \in 1..Len(patched) : patched[i] # Str(code_lines[i])

\* C29: the cursor never moves backwards: every step of the loop leaves
\* replace_idx where it is or sets it to a greater slot index, so that no
\* standalone entry is placed before the slot changed last.
C29_CursorMonotone ==
    [][InLoop => replace_idx' >= replace_idx]_vars

\* the step clears the slot i for the removed entry the loop is at
ClearsFor(i) == AtRemoved /\ patched[i] # Str(<<>>) /\ patched'[i] = Str(<<>>)

\* C30: a removed entry, standalone or inside a contiguous deletion run,
\* clears only a slot that held a reformatted source line matching the text
\* of the entry under two_lines_match.
C30_RemovalMatches ==
    [][\A i \in 1..Len(patched) :
           ClearsFor(i) => /\ patched[i] = Str(code_lines[i])
                           /\ two_lines_match(LStrip(Drop(pline, 1)), code_lines[i])]_vars

=============================================================================
